---- MODULE Spec2Model ----
(***************************************************************************)
(* Webhook transaction processor: the webhook handler receive_webhook,     *)
(* the query handler get_transaction, the background settlement task       *)
(* process_transaction and the transactions table they share.              *)
(*                                                                         *)
(* Handlers run in a thread pool and every database statement is its own   *)
(* step, so calls interleave between statements.                           *)
(***************************************************************************)
EXTENDS Integers, FiniteSets, Sequences, TLC

\* ------------------------------------------------------------ bounds
\* Number of webhook calls (request slots) of a run.
MaxReq == 2
\* Last value of the logical clock; the clock starts at 1.
MaxClock == 2

\* ------------------------------------------------------------ constants
\* processed_at is a nullable column: 0 stands for NULL, real times are >= 1.
NULL == 0
\* Status codes of the responses.
HTTP_ACCEPTED == 202
HTTP_OK == 200
HTTP_NOT_FOUND == 404
HTTP_INTERNAL_ERROR == 500
\* Numeric(12, 2): amounts are kept in thousandths, the column keeps hundredths.
NumericScale == 10

Req == 1..MaxReq
TxIds == {"tx1", "tx2"}
Times == 1..MaxClock

\* TransactionCreate: the webhook payload. Two payloads per transaction id,
\* differing in every other field.
Payloads ==
  { [transaction_id |-> t, source_account |-> "A", destination_account |-> "B",
     amount |-> 10000, currency |-> "USD"] : t \in TxIds }
  \cup
  { [transaction_id |-> t, source_account |-> "C", destination_account |-> "D",
     amount |-> 20004, currency |-> "EUR"] : t \in TxIds }

NoPayload ==
  [transaction_id |-> "none", source_account |-> "none",
   destination_account |-> "none", amount |-> 0, currency |-> "none"]

VARIABLES
  store,      \* the transactions table: a set of rows
  clock,      \* the logical clock read by func.now() and datetime.utcnow()
  pc,         \* pc[r]: position of webhook call r in receive_webhook
  payload,    \* payload[r]: the TransactionCreate of call r
  outcome,    \* outcome[r]: what db.commit() did: none/inserted/duplicate/failure
  result,     \* result[r]: the response of call r, 0 while there is none
  task,       \* task[r]: state of the settlement task call r added
  taskTxn,    \* taskTxn[r]: primary key of the row the task loaded, 0 if none
  taskDb,     \* taskDb[r]: the task's session `db`: none, open or closed
  lookup      \* the last response of get_transaction

vars == <<store, clock, pc, payload, outcome, result, task, taskTxn, taskDb, lookup>>

\* ------------------------------------------------------------ the table
\* Column(Numeric(12, 2)): the amount rounded to two fractional digits.
Numeric(a) == ((a + (NumericScale \div 2)) \div NumericScale) * NumericScale

\* Variant of Transaction: created_at taken from a database server whose
\* clock runs ahead of the application's.
TransactionServerAhead(r, p, now) ==
  [id |-> r,
   transaction_id |-> p.transaction_id,
   source_account |-> p.source_account,
   destination_account |-> p.destination_account,
   amount |-> Numeric(p.amount),
   currency |-> p.currency,
   status |-> "PROCESSING",
   created_at |-> now + 1,
   processed_at |-> NULL]

\* Transaction(...): the row receive_webhook constructs. The primary key is a
\* fresh uuid4 per constructed row: the call's index stands for it.
\* created_at is the server default func.now(); processed_at starts NULL.
Transaction(r, p, now) ==
  [id |-> r,
   transaction_id |-> p.transaction_id,
   source_account |-> p.source_account,
   destination_account |-> p.destination_account,
   amount |-> Numeric(p.amount),
   currency |-> p.currency,
   status |-> "PROCESSING",
   created_at |-> now,
   processed_at |-> NULL]

\* db.query(Transaction).filter(Transaction.transaction_id == t): matching rows.
Query(rows, t) == { row \in rows : row.transaction_id = t }

\* Variant of UniqueViolation: the column without unique=True.
UniqueViolationNoConstraint(rows, txn) == FALSE

\* transaction_id = Column(String, unique=True): the INSERT violates the
\* constraint when a row with the same transaction_id is stored.
UniqueViolation(rows, txn) == Query(rows, txn.transaction_id) # {}

\* db.add(txn); db.commit(): the rows after a successful INSERT.
Insert(rows, txn) == rows \cup {txn}

\* Variant of MarkProcessed: db.delete(txn) in place of the two assignments,
\* so that a settled record is removed.
MarkProcessedDelete(rows, k, now) == { row \in rows : row.id # k }

\* Variant of MarkProcessed: a bulk UPDATE without the filter on the row.
MarkProcessedAllRows(rows, k, now) ==
  { [row EXCEPT !.status = "PROCESSED", !.processed_at = now] : row \in rows }

\* Variant of MarkProcessed: the UPDATE without the processed_at assignment.
MarkProcessedStatusOnly(rows, k, now) ==
  { IF row.id = k THEN [row EXCEPT !.status = "PROCESSED"] ELSE row : row \in rows }

\* txn.status = "PROCESSED"; txn.processed_at = datetime.utcnow(); db.commit():
\* one UPDATE of both columns of the row with primary key k.
MarkProcessed(rows, k, now) ==
  { IF row.id = k
      THEN [row EXCEPT !.status = "PROCESSED", !.processed_at = now]
      ELSE row : row \in rows }

\* TransactionResponse (orm_mode): the fields of a row the response carries.
TransactionResponse(row) ==
  [transaction_id |-> row.transaction_id,
   source_account |-> row.source_account,
   destination_account |-> row.destination_account,
   amount |-> row.amount,
   currency |-> row.currency,
   status |-> row.status,
   created_at |-> row.created_at,
   processed_at |-> row.processed_at]

\* `raise HTTPException(status_code=404, ...)` in get_transaction: the name
\* HTTPException is not imported in routes.py, so the raise statement raises
\* NameError and the framework answers 500.
RaiseNotFound == HTTP_INTERNAL_ERROR

\* get_transaction: the responses the handler can give for transaction id t.
GetTransaction(rows, t) ==
  IF Query(rows, t) = {}
    THEN { [transaction_id |-> t, status |-> RaiseNotFound, body |-> <<>>] }
    ELSE { [transaction_id |-> t, status |-> HTTP_OK,
            body |-> <<TransactionResponse(row)>>] : row \in Query(rows, t) }

NoLookup == [transaction_id |-> "none", status |-> 0, body |-> <<>>]

\* ------------------------------------------------------------ initial state
Init ==
  /\ store = {}
  /\ clock = 1
  /\ pc = [r \in Req |-> "idle"]
  /\ payload = [r \in Req |-> NoPayload]
  /\ outcome = [r \in Req |-> "none"]
  /\ result = [r \in Req |-> 0]
  /\ task = [r \in Req |-> "none"]
  /\ taskTxn = [r \in Req |-> 0]
  /\ taskDb = [r \in Req |-> "none"]
  /\ lookup = NoLookup

\* ------------------------------------------------------------ receive_webhook
\* A webhook arrives and the handler constructs the Transaction (lines 21-33).
\* Calls take the request slots in order.
Receive(r, p) ==
  /\ pc[r] = "idle"
  /\ IF r = 1 THEN TRUE ELSE pc[r - 1] # "idle"
  /\ pc' = [pc EXCEPT ![r] = "built"]
  /\ payload' = [payload EXCEPT ![r] = p]
  /\ UNCHANGED <<store, clock, outcome, result, task, taskTxn, taskDb, lookup>>

\* Variant of Commit: db.merge(txn) on the transaction id instead of db.add(txn),
\* so a repeated webhook overwrites the stored row.
CommitMerge(r) ==
  /\ pc[r] = "built"
  /\ LET txn == Transaction(r, payload[r], clock)
         old == Query(store, txn.transaction_id) IN
       IF old # {}
         THEN /\ store' = (store \ old) \cup { [txn EXCEPT !.id = row.id] : row \in old }
              /\ outcome' = [outcome EXCEPT ![r] = "duplicate"]
              /\ pc' = [pc EXCEPT ![r] = "respond"]
         ELSE /\ store' = Insert(store, txn)
              /\ outcome' = [outcome EXCEPT ![r] = "inserted"]
              /\ pc' = [pc EXCEPT ![r] = "committed"]
  /\ UNCHANGED <<clock, payload, result, task, taskTxn, taskDb, lookup>>

\* Variant of Commit: after the rollback the handler copies the payload's
\* fields into the stored row (an upsert).
CommitUpsert(r) ==
  /\ pc[r] = "built"
  /\ LET txn == Transaction(r, payload[r], clock)
         old == Query(store, txn.transaction_id) IN
       IF UniqueViolation(store, txn)
         THEN /\ store' = (store \ old) \cup
                    { [row EXCEPT !.source_account = txn.source_account,
                                  !.destination_account = txn.destination_account,
                                  !.amount = txn.amount,
                                  !.currency = txn.currency] : row \in old }
              /\ outcome' = [outcome EXCEPT ![r] = "duplicate"]
              /\ pc' = [pc EXCEPT ![r] = "respond"]
         ELSE /\ store' = Insert(store, txn)
              /\ outcome' = [outcome EXCEPT ![r] = "inserted"]
              /\ pc' = [pc EXCEPT ![r] = "committed"]
  /\ UNCHANGED <<clock, payload, result, task, taskTxn, taskDb, lookup>>

\* Variant of Commit: add_task placed after the try statement, so it is also
\* reached when IntegrityError was caught.
CommitScheduleAlways(r) ==
  /\ pc[r] = "built"
  /\ LET txn == Transaction(r, payload[r], clock) IN
       IF UniqueViolation(store, txn)
         THEN /\ outcome' = [outcome EXCEPT ![r] = "duplicate"]
              /\ pc' = [pc EXCEPT ![r] = "committed"]
              /\ UNCHANGED store
         ELSE /\ store' = Insert(store, txn)
              /\ outcome' = [outcome EXCEPT ![r] = "inserted"]
              /\ pc' = [pc EXCEPT ![r] = "committed"]
  /\ UNCHANGED <<clock, payload, result, task, taskTxn, taskDb, lookup>>

\* db.add(txn); db.commit() (lines 36-37). Either the INSERT succeeds, or it
\* raises IntegrityError, which the handler catches and rolls back (44-45).
Commit(r) ==
  /\ pc[r] = "built"
  /\ LET txn == Transaction(r, payload[r], clock) IN
       IF UniqueViolation(store, txn)
         THEN /\ outcome' = [outcome EXCEPT ![r] = "duplicate"]
              /\ pc' = [pc EXCEPT ![r] = "respond"]
              /\ UNCHANGED store
         ELSE /\ store' = Insert(store, txn)
              /\ outcome' = [outcome EXCEPT ![r] = "inserted"]
              /\ pc' = [pc EXCEPT ![r] = "committed"]
  /\ UNCHANGED <<clock, payload, result, task, taskTxn, taskDb, lookup>>

\* Variant of CommitFails: `except Exception` in place of `except
\* IntegrityError`, so the failure is swallowed and the call is acknowledged.
CommitFailsSwallowed(r) ==
  /\ pc[r] = "built"
  /\ outcome' = [outcome EXCEPT ![r] = "failure"]
  /\ pc' = [pc EXCEPT ![r] = "respond"]
  /\ UNCHANGED <<store, clock, payload, result, task, taskTxn, taskDb, lookup>>

\* db.commit() raises an error that is not IntegrityError: `except
\* IntegrityError` does not catch it, it leaves the handler and the framework
\* answers 500. Nothing was inserted and add_task was not reached.
CommitFails(r) ==
  /\ pc[r] = "built"
  /\ outcome' = [outcome EXCEPT ![r] = "failure"]
  /\ result' = [result EXCEPT ![r] = HTTP_INTERNAL_ERROR]
  /\ pc' = [pc EXCEPT ![r] = "done"]
  /\ UNCHANGED <<store, clock, payload, task, taskTxn, taskDb, lookup>>

\* background_tasks.add_task(process_transaction, payload.transaction_id)
\* (lines 39-42), reached only after db.commit() returned.
AddTask(r) ==
  /\ pc[r] = "committed"
  /\ task' = [task EXCEPT ![r] = "scheduled"]
  /\ pc' = [pc EXCEPT ![r] = "respond"]
  /\ UNCHANGED <<store, clock, payload, outcome, result, taskTxn, taskDb, lookup>>

\* return {"message": "accepted"} with status_code=202 (lines 20, 48).
Return(r) ==
  /\ pc[r] = "respond"
  /\ result' = [result EXCEPT ![r] = HTTP_ACCEPTED]
  /\ pc' = [pc EXCEPT ![r] = "done"]
  /\ UNCHANGED <<store, clock, payload, outcome, task, taskTxn, taskDb, lookup>>

\* ------------------------------------------------------------ process_transaction
\* Variant of TaskStart: db = SessionLocal() placed before time.sleep(30).
TaskStartWithSession(r) ==
  /\ task[r] = "scheduled"
  /\ pc[r] = "done"
  /\ task' = [task EXCEPT ![r] = "waiting"]
  /\ taskDb' = [taskDb EXCEPT ![r] = "open"]
  /\ UNCHANGED <<store, clock, pc, payload, outcome, result, taskTxn, lookup>>

\* Variant of TaskStart: the task is started as soon as it is added, as a
\* thread of its own, without waiting for the response.
TaskStartEager(r) ==
  /\ task[r] = "scheduled"
  /\ task' = [task EXCEPT ![r] = "waiting"]
  /\ UNCHANGED <<store, clock, pc, payload, outcome, result, taskTxn, taskDb, lookup>>

\* The framework runs the tasks of a BackgroundTasks object after the
\* response of their request was sent; the task begins with time.sleep(30).
TaskStart(r) ==
  /\ task[r] = "scheduled"
  /\ pc[r] = "done"
  /\ task' = [task EXCEPT ![r] = "waiting"]
  /\ UNCHANGED <<store, clock, pc, payload, outcome, result, taskTxn, taskDb, lookup>>

\* time.sleep returns; db = SessionLocal() (line 9).
TaskWake(r) ==
  /\ task[r] = "waiting"
  /\ task' = [task EXCEPT ![r] = "settling"]
  /\ taskDb' = [taskDb EXCEPT ![r] = "open"]
  /\ UNCHANGED <<store, clock, pc, payload, outcome, result, taskTxn, lookup>>

\* Variant of TaskQuery: the filter compares the primary key column
\* Transaction.id with the transaction id, which matches no row.
TaskQueryByPrimaryKey(r) ==
  /\ task[r] = "settling"
  /\ task' = [task EXCEPT ![r] = "skipped"]
  /\ taskDb' = [taskDb EXCEPT ![r] = "closed"]
  /\ UNCHANGED <<store, clock, pc, payload, outcome, result, taskTxn, lookup>>

\* Variant of TaskQuery: `.one()` in place of `.first()`, which raises
\* NoResultFound when no row matches.
TaskQueryOne(r) ==
  /\ task[r] = "settling"
  /\ LET found == Query(store, payload[r].transaction_id) IN
       IF found = {}
         THEN /\ task' = [task EXCEPT ![r] = "failed"]
              /\ taskDb' = [taskDb EXCEPT ![r] = "closed"]
              /\ UNCHANGED taskTxn
         ELSE \E row \in found :
                /\ taskTxn' = [taskTxn EXCEPT ![r] = row.id]
                /\ task' = [task EXCEPT ![r] = "found"]
                /\ UNCHANGED taskDb
  /\ UNCHANGED <<store, clock, pc, payload, outcome, result, lookup>>

\* txn = db.query(...).first() (lines 11-13). Without a row `if txn:` is
\* false and the task ends through finally: db.close() (lines 15, 19-20).
TaskQuery(r) ==
  /\ task[r] = "settling"
  /\ LET found == Query(store, payload[r].transaction_id) IN
       IF found = {}
         THEN /\ task' = [task EXCEPT ![r] = "skipped"]
              /\ taskDb' = [taskDb EXCEPT ![r] = "closed"]
              /\ UNCHANGED taskTxn
         ELSE \E row \in found :
                /\ taskTxn' = [taskTxn EXCEPT ![r] = row.id]
                /\ task' = [task EXCEPT ![r] = "found"]
                /\ UNCHANGED taskDb
  /\ UNCHANGED <<store, clock, pc, payload, outcome, result, lookup>>

\* Variant of TaskCommit: the body of the task wrapped in `while True`, so
\* after its update the task sleeps and settles again.
TaskCommitLoop(r) ==
  /\ task[r] = "found"
  /\ store' = MarkProcessed(store, taskTxn[r], clock)
  /\ task' = [task EXCEPT ![r] = "waiting"]
  /\ taskDb' = [taskDb EXCEPT ![r] = "closed"]
  /\ UNCHANGED <<clock, pc, payload, outcome, result, taskTxn, lookup>>

\* txn.status = ...; txn.processed_at = ...; db.commit() (lines 16-18): the
\* UPDATE of the loaded row. When the row is gone the UPDATE matches nothing,
\* commit raises and the task ends with that error. Either way the task
\* leaves through finally: db.close() (lines 19-20).
TaskCommit(r) ==
  /\ task[r] = "found"
  /\ IF \E row \in store : row.id = taskTxn[r]
       THEN /\ store' = MarkProcessed(store, taskTxn[r], clock)
            /\ task' = [task EXCEPT ![r] = "done"]
       ELSE /\ task' = [task EXCEPT ![r] = "failed"]
            /\ UNCHANGED store
  /\ taskDb' = [taskDb EXCEPT ![r] = "closed"]
  /\ UNCHANGED <<clock, pc, payload, outcome, result, taskTxn, lookup>>

\* Variant of TaskCommitFails: the task catches the error and goes back to
\* sleep to try again.
TaskCommitFailsRetry(r) ==
  /\ task[r] = "found"
  /\ task' = [task EXCEPT ![r] = "waiting"]
  /\ taskDb' = [taskDb EXCEPT ![r] = "closed"]
  /\ UNCHANGED <<store, clock, pc, payload, outcome, result, taskTxn, lookup>>

\* db.commit() of the task raises a storage error: nothing is written, the
\* error leaves the task through finally: db.close(); nothing runs it again.
TaskCommitFails(r) ==
  /\ task[r] = "found"
  /\ task' = [task EXCEPT ![r] = "failed"]
  /\ taskDb' = [taskDb EXCEPT ![r] = "closed"]
  /\ UNCHANGED <<store, clock, pc, payload, outcome, result, taskTxn, lookup>>

\* ------------------------------------------------------------ get_transaction
\* GET /transactions/{transaction_id} (lines 54-62): one query, one response.
Lookup(t) ==
  /\ \E resp \in GetTransaction(store, t) : lookup' = resp
  /\ UNCHANGED <<store, clock, pc, payload, outcome, result, task, taskTxn, taskDb>>

\* ------------------------------------------------------------ environment
\* Time passes.
Tick ==
  /\ clock < MaxClock
  /\ clock' = clock + 1
  /\ UNCHANGED <<store, pc, payload, outcome, result, task, taskTxn, taskDb, lookup>>

\* A row is deleted from the table by something other than this program.
RemoveRecord(row) ==
  /\ row \in store
  /\ store' = store \ {row}
  /\ UNCHANGED <<clock, pc, payload, outcome, result, task, taskTxn, taskDb, lookup>>

\* ------------------------------------------------------------ specifications
Accept ==
  \E r \in Req :
    \/ \E p \in Payloads : Receive(r, p)
    \/ Commit(r)
    \/ AddTask(r)
    \/ Return(r)

Settle ==
  \E r \in Req :
    \/ TaskStart(r)
    \/ TaskWake(r)
    \/ TaskQuery(r)
    \/ TaskCommit(r)

StorageFailure ==
  \E r \in Req :
    \/ CommitFails(r)
    \/ TaskCommitFails(r)

Read == \E t \in TxIds : Lookup(t)

Remove == \E row \in store : RemoveRecord(row)

\* The program with a store that may fail.
Next ==
  \/ Accept
  \/ Settle
  \/ StorageFailure
  \/ Read
  \/ Tick

Spec == Init /\ [][Next]_vars

\* The accept and settlement paths over a table whose rows may also be deleted
\* from outside.
NextRemove ==
  \/ Accept
  \/ Settle
  \/ Tick
  \/ Remove

SpecRemove == Init /\ [][NextRemove]_vars

\* The program over a store that does not fail and keeps its rows. No step of
\* a handler or a task depends on the value of the clock, which stands still
\* here.
NextLive ==
  \/ Accept
  \/ Settle
  \/ Read

\* The thread pool runs every started handler and every started background
\* task on, one statement after the other.
Fairness ==
  \A r \in Req :
    /\ WF_vars(Commit(r))
    /\ WF_vars(AddTask(r))
    /\ WF_vars(Return(r))
    /\ WF_vars(TaskStart(r))
    /\ WF_vars(TaskWake(r))
    /\ WF_vars(TaskQuery(r))
    /\ WF_vars(TaskCommit(r))

SpecLive == Init /\ [][NextLive]_vars /\ Fairness

\* ------------------------------------------------------------ properties
\* The webhook calls that carry transaction id t.
Calls(t) == { r \in Req : payload[r].transaction_id = t }

\* The calls for t whose INSERT succeeded.
Inserted(t) == { r \in Calls(t) : outcome[r] = "inserted" }

\* The calls for t that added a settlement task.
Scheduled(t) == { r \in Calls(t) : task[r] # "none" }

\* The row is the complete record built from the payload of the call that
\* inserted it.
CompleteRow(row) ==
  /\ row.id \in Req
  /\ outcome[row.id] = "inserted"
  /\ row.transaction_id = payload[row.id].transaction_id
  /\ row.source_account = payload[row.id].source_account
  /\ row.destination_account = payload[row.id].destination_account
  /\ row.amount = Numeric(payload[row.id].amount)
  /\ row.currency = payload[row.id].currency
  /\ row.status \in {"PROCESSING", "PROCESSED"}
  /\ row.created_at \in Times

\* C1: for every transaction id, whatever the interleaving of the accept calls
\* that carry it, at most one call's insert succeeds and the store holds
\* exactly as many rows for the id as calls inserted (never two); every stored
\* row is the complete record of the inserting call; and every call that has
\* finished without a storage failure was acknowledged with 202 and leaves
\* exactly one row for its id in the store.
C1_IdempotentIngestion ==
  \A t \in TxIds :
    /\ Cardinality(Query(store, t)) <= 1
    /\ Cardinality(Inserted(t)) = Cardinality(Query(store, t))
    /\ \A row \in Query(store, t) : CompleteRow(row)
    /\ \A r \in Calls(t) :
         (pc[r] = "done" /\ outcome[r] # "failure")
           => /\ result[r] = HTTP_ACCEPTED
              /\ Cardinality(Query(store, t)) = 1

\* Two calls with the same id have both been acknowledged, and the call that
\* arrived second is the one that inserted: the calls overlapped.
C1_Witness ==
  /\ payload[1].transaction_id = payload[2].transaction_id
  /\ pc[1] = "done" /\ pc[2] = "done"
  /\ outcome[1] = "duplicate" /\ outcome[2] = "inserted"
  /\ result[1] = HTTP_ACCEPTED /\ result[2] = HTTP_ACCEPTED

\* C2 as stated: in every state the number of tasks ever scheduled for an id
\* is 1 if a call inserted a record for it and 0 otherwise.
C2_AsStated ==
  \A t \in TxIds :
    Cardinality(Scheduled(t)) = IF Inserted(t) # {} THEN 1 ELSE 0

\* C2 amended: in every state at most one task was ever scheduled for an id;
\* the calls that scheduled one are exactly the inserting calls that have
\* passed add_task, so the number is 1 from the inserting call's add_task on
\* and 0 before it and when no call inserted; a call that found a duplicate
\* has scheduled none, whatever the status of the stored record.
C2_OneTaskPerInsert ==
  \A t \in TxIds :
    /\ Cardinality(Scheduled(t)) <= 1
    /\ Scheduled(t) = { r \in Inserted(t) : pc[r] \in {"respond", "done"} }
    /\ \A r \in Calls(t) : outcome[r] = "duplicate" => task[r] = "none"

\* A call found a duplicate of a record that is already PROCESSED, returned,
\* and the id still has the one task of the inserting call.
C2_Witness ==
  \E t \in TxIds :
    /\ \E r \in Calls(t) : outcome[r] = "duplicate" /\ pc[r] = "done"
    /\ \E row \in Query(store, t) : row.status = "PROCESSED"
    /\ Cardinality(Scheduled(t)) = 1

\* Every response get_transaction can give for t over the rows shows the
\* record with status PROCESSING and processed_at NULL.
ShowsProcessing(rows, t) ==
  \A resp \in GetTransaction(rows, t) :
    /\ resp.status = HTTP_OK
    /\ resp.body[1].status = "PROCESSING"
    /\ resp.body[1].processed_at = NULL

\* Every response get_transaction can give for t over the rows shows the
\* record with status PROCESSED and a processed_at that is not NULL.
ShowsProcessed(rows, t) ==
  \A resp \in GetTransaction(rows, t) :
    /\ resp.status = HTTP_OK
    /\ resp.body[1].status = "PROCESSED"
    /\ resp.body[1].processed_at # NULL

\* C3 as stated: at the step in which any accept call returns its
\* acknowledgment, a lookup by its transaction id shows PROCESSING and a NULL
\* processed_at.
C3_AsStated ==
  [][\A r \in Req :
       (pc[r] = "respond" /\ pc'[r] = "done")
         => ShowsProcessing(store', payload[r].transaction_id)]_vars

\* C3 amended: at the step in which an accept call whose insert succeeded
\* returns its acknowledgment, a lookup by its transaction id shows PROCESSING
\* and a NULL processed_at; and the settlement task of a call does not leave
\* its scheduled state before that call has returned.
C3_NoPrematureSettlement ==
  /\ [][\A r \in Req :
          (pc[r] = "respond" /\ pc'[r] = "done" /\ outcome[r] = "inserted")
            => ShowsProcessing(store', payload[r].transaction_id)]_vars
  /\ [](\A r \in Req : task[r] \notin {"none", "scheduled"} => pc[r] = "done")

\* An inserting call has returned 202 while its task is still only scheduled
\* and the record it inserted is PROCESSING.
C3_Witness ==
  \E r \in Req :
    /\ pc[r] = "done" /\ outcome[r] = "inserted" /\ result[r] = HTTP_ACCEPTED
    /\ task[r] = "scheduled"
    /\ ShowsProcessing(store, payload[r].transaction_id)

\* C4: when the store does not fail and no row is removed, under fair
\* scheduling every transaction whose insert succeeded is eventually shown by
\* lookup as PROCESSED with a processed_at that is not NULL, and from then on
\* always.
C4_EventualSettlement ==
  \A r \in Req :
    (outcome[r] = "inserted") ~> [] ShowsProcessed(store, payload[r].transaction_id)

\* The task of an inserting call is done and lookup shows its record PROCESSED.
C4_Witness ==
  \E r \in Req :
    /\ outcome[r] = "inserted" /\ task[r] = "done"
    /\ ShowsProcessed(store, payload[r].transaction_id)
    /\ lookup.transaction_id = payload[r].transaction_id
    /\ lookup.status = HTTP_OK
    /\ lookup.body[1].status = "PROCESSED"

\* C5: when a settlement task re-reads its record after the wait and no row
\* with its transaction id is stored, the task ends skipped, not with an
\* error, and the step leaves the store as it was.
C5_SkipOnMissingRecord ==
  [][\A r \in Req :
       (/\ task[r] = "settling"
        /\ task'[r] # "settling"
        /\ Query(store, payload[r].transaction_id) = {})
         => (task'[r] = "skipped" /\ store' = store)]_vars

\* A task was skipped: its record had been removed before it re-read it.
C5_Witness ==
  \E r \in Req :
    /\ task[r] = "skipped"
    /\ outcome[r] = "inserted"
    /\ Query(store, payload[r].transaction_id) = {}

\* C6: a lookup of a transaction id no accept call has inserted answers
\* NotFound (404) without a record; a lookup of a stored id answers with that
\* record and its current status.
C6_LookupContract ==
  [][\A t \in TxIds :
       Lookup(t) =>
         IF Inserted(t) = {}
           THEN lookup'.status = HTTP_NOT_FOUND /\ lookup'.body = <<>>
           ELSE \E row \in Query(store, t) :
                  /\ lookup'.status = HTTP_OK
                  /\ lookup'.body = <<TransactionResponse(row)>>]_vars

\* C7: once a stored record is PROCESSED, every step keeps that record stored
\* with status PROCESSED.
C7_StatusMonotonic ==
  [][\A row \in store :
       row.status = "PROCESSED"
         => \E next \in store' : next.id = row.id /\ next.status = "PROCESSED"]_vars

\* A repeated accept for the id of a PROCESSED record has returned and a
\* lookup was answered, and the record is still PROCESSED.
C7_Witness ==
  \E t \in TxIds :
    /\ \E row \in Query(store, t) : row.status = "PROCESSED"
    /\ \E r \in Calls(t) :
         outcome[r] = "duplicate" /\ pc[r] = "done" /\ task[r] = "none"
    /\ lookup.transaction_id = t /\ lookup.status = HTTP_OK
    /\ lookup.body[1].status = "PROCESSED"

\* C8: every stored record has status PROCESSING or PROCESSED, and its
\* processed_at is NULL exactly when its status is PROCESSING.
C8_StatusProcessedAt ==
  \A row \in store :
    /\ row.status \in {"PROCESSING", "PROCESSED"}
    /\ row.processed_at = NULL <=> row.status = "PROCESSING"

\* The store holds a PROCESSED record with its processed_at set next to a
\* PROCESSING record with a NULL processed_at.
C8_Witness ==
  /\ \E row \in store : row.status = "PROCESSED" /\ row.processed_at \in Times
  /\ \E row \in store : row.status = "PROCESSING" /\ row.processed_at = NULL

\* C9: when a settlement task applies its update to a record that is already
\* PROCESSED, the update raises no error and the record keeps the status and
\* the processed_at of the first application.
C9_MarkProcessedIdempotent ==
  [][\A r \in Req : \A row \in store :
       (/\ task[r] = "found" /\ task'[r] # "found"
        /\ row.id = taskTxn[r]
        /\ row.status = "PROCESSED")
         => /\ task'[r] = "done"
            /\ \E next \in store' :
                 /\ next.id = row.id
                 /\ next.status = row.status
                 /\ next.processed_at = row.processed_at]_vars

\* C10: an accept call whose insert fails with a storage failure other than
\* the uniqueness violation answers with an error and no acknowledgment, the
\* failing step stores nothing, and the call never has a task; and a task
\* exists only for a call whose insert was confirmed.
C10_StorageFailurePropagates ==
  /\ [](\A r \in Req :
          /\ outcome[r] = "failure"
               => /\ pc[r] = "done"
                  /\ result[r] = HTTP_INTERNAL_ERROR
                  /\ task[r] = "none"
                  /\ \A row \in store : row.id # r
          /\ task[r] # "none" => outcome[r] = "inserted")
  /\ [][\A r \in Req :
          (outcome[r] = "none" /\ outcome'[r] = "failure") => store' = store]_vars

\* A call failed with a storage failure while another call for the same id
\* was acknowledged and has its task.
C10_Witness ==
  \E r \in Req : \E q \in Req :
    /\ outcome[r] = "failure" /\ result[r] = HTTP_INTERNAL_ERROR
    /\ payload[q].transaction_id = payload[r].transaction_id
    /\ outcome[q] = "inserted" /\ result[q] = HTTP_ACCEPTED /\ task[q] # "none"

\* C11: the processed_at of a record is written at most once: once it is not
\* NULL, no step changes the processed_at of that record, whatever accept calls
\* and settlement tasks run afterwards.
C11_ProcessedAtWrittenOnce ==
  [][\A row \in store : \A next \in store' :
       (row.processed_at # NULL /\ next.id = row.id)
         => next.processed_at = row.processed_at]_vars

\* C12: every step of an accept call whose transaction id is already stored
\* leaves the store as it is: the stored record keeps all its fields, also
\* when the call's payload differs from it, and no row is added.
C12_DuplicateLeavesStore ==
  [][\A r \in Req :
       (pc'[r] # pc[r] /\ Query(store, payload'[r].transaction_id) # {})
         => store' = store]_vars

\* A call whose payload differs in every other field from the stored record
\* of its id was acknowledged as a duplicate, and the one stored record still
\* carries the fields of the call that inserted it.
C12_Witness ==
  \E r \in Req : \E q \in Req :
    /\ outcome[r] = "duplicate" /\ pc[r] = "done" /\ result[r] = HTTP_ACCEPTED
    /\ outcome[q] = "inserted"
    /\ payload[q].transaction_id = payload[r].transaction_id
    /\ payload[q].amount # payload[r].amount
    /\ payload[q].source_account # payload[r].source_account
    /\ Query(store, payload[r].transaction_id)
         = { row \in store : row.id = q /\ CompleteRow(row) }
    /\ Cardinality(Query(store, payload[r].transaction_id)) = 1

\* C13: a step of the settlement task for transaction id T changes nothing
\* but the status and processed_at of the record keyed by T: the rows of other
\* ids are unchanged, the other fields of T's row are unchanged, and no row is
\* added or removed.
C13_SettlementFrame ==
  [][\A r \in Req :
       (task[r] # "none" /\ task'[r] # task[r])
         => /\ Cardinality(store') = Cardinality(store)
            /\ \A row \in store :
                 \E next \in store' :
                   /\ next = [row EXCEPT !.status = next.status,
                                         !.processed_at = next.processed_at]
                   /\ row.transaction_id # payload[r].transaction_id
                        => next = row]_vars

\* The tasks of two different ids interleave: one has settled its record
\* while the other has loaded its row and not yet written, and that row is
\* still PROCESSING.
C13_Witness ==
  \E r \in Req : \E q \in Req :
    /\ payload[r].transaction_id # payload[q].transaction_id
    /\ task[r] = "done" /\ task[q] = "found"
    /\ \E row \in store : row.id = r /\ row.status = "PROCESSED"
    /\ \E row \in store :
         row.id = q /\ row.status = "PROCESSING" /\ CompleteRow(row)

\* C14: when the update of a settlement task fails with a storage error, the
\* task ends at that step without writing; a failed task never takes another
\* step and no other task is scheduled for its id; and while it is failed its
\* call keeps its 202 acknowledgment and a lookup shows the record PROCESSING
\* with a NULL processed_at.
C14_FailedSettlementNotRetried ==
  /\ [][\A r \in Req :
          (task[r] = "found" /\ task'[r] \notin {"found", "done"})
            => /\ task'[r] = "failed"
               /\ store' = store
               /\ result'[r] = result[r]]_vars
  /\ [][\A r \in Req : task[r] = "failed" => task'[r] = "failed"]_vars
  /\ [](\A r \in Req :
          task[r] = "failed"
            => /\ result[r] = HTTP_ACCEPTED
               /\ Scheduled(payload[r].transaction_id) = {r}
               /\ ShowsProcessing(store, payload[r].transaction_id))

\* The task of an acknowledged call has failed, time has passed, and the last
\* lookup of its id shows the record PROCESSING.
C14_Witness ==
  \E r \in Req :
    /\ task[r] = "failed" /\ result[r] = HTTP_ACCEPTED
    /\ clock > 1
    /\ lookup.transaction_id = payload[r].transaction_id
    /\ lookup.status = HTTP_OK
    /\ lookup.body[1].status = "PROCESSING"
    /\ lookup.body[1].processed_at = NULL

\* C15: a settlement task that has not finished its wait has no session; it
\* holds an open session only between the end of the wait and its end; and a
\* task that has ended, by update, by absence of the record or by a storage
\* error, has closed its session.
C15_SessionScope ==
  \A r \in Req :
    /\ task[r] \in {"none", "scheduled", "waiting"} => taskDb[r] = "none"
    /\ task[r] \in {"settling", "found"} <=> taskDb[r] = "open"
    /\ task[r] \in {"done", "skipped", "failed"} => taskDb[r] = "closed"

\* One task ended skipped and another ended with a storage error, both with
\* their session closed.
C15_Witness ==
  \E r \in Req : \E q \in Req :
    /\ task[r] = "skipped" /\ taskDb[r] = "closed"
    /\ task[q] = "failed" /\ taskDb[q] = "closed"

\* The transaction ids and the primary keys that are stored.
StoredIds(rows) == { row.transaction_id : row \in rows }
StoredKeys(rows) == { row.id : row \in rows }

\* C16: across every step of accept, lookup and settlement no stored row is
\* deleted, so the set of stored transaction ids never shrinks; a transaction
\* id enters the store only in the step in which an accept call for that id
\* inserts; and a stored row changes only in the step in which a settlement
\* task writes its update.
C16_CreatedByAcceptMutatedBySettlement ==
  [][/\ StoredKeys(store) \subseteq StoredKeys(store')
     /\ StoredIds(store) \subseteq StoredIds(store')
     /\ \A t \in StoredIds(store') \ StoredIds(store) :
          \E r \in Req :
            /\ pc[r] = "built" /\ outcome'[r] = "inserted"
            /\ payload[r].transaction_id = t
     /\ (\E row \in store : row \notin store')
          => \E r \in Req : task[r] = "found" /\ task'[r] = "done"]_vars

\* Both ids are stored, one record settled by its task and one not yet, and
\* a lookup was answered with a record.
C16_Witness ==
  /\ StoredIds(store) = TxIds
  /\ \E row \in store : row.status = "PROCESSED"
  /\ \E row \in store : row.status = "PROCESSING"
  /\ lookup.status = HTTP_OK
  /\ \E r \in Req : task[r] = "done"

\* The states in which a settlement task has ended by update or by skipping.
Ended == {"done", "skipped"}

C18_ProcessedAfterCreated ==
  \A row \in store :
    row.status = "PROCESSED" => row.processed_at >= row.created_at

\* A record created at time 1 was settled at a later time, next to a record
\* created and settled at the same time.
C18_Witness ==
  /\ \E row \in store :
       row.status = "PROCESSED" /\ row.created_at = 1 /\ row.processed_at > 1
  /\ \E row \in store :
       row.status = "PROCESSED" /\ row.processed_at = row.created_at

====
